---- MODULE Spec2Model ----
(***************************************************************************)
(* Merkle tree of src/merkel/merkel.rs (construct, verify, prove,          *)
(* verify_proof) and the flat reducer of src/main.rs (merkle, hash2).      *)
(*                                                                         *)
(* SHA-256 is modelled as a collision-free symbolic hash: the digest of a  *)
(* byte sequence is a one-unit sequence whose unit carries the preimage,   *)
(* so two digests are equal iff their preimages are equal, and a digest    *)
(* has a fixed length that differs from the length of two digests          *)
(* concatenated.  A byte sequence is a sequence of units; a unit is either *)
(* a raw byte (val >= 0) or a digest unit (val = -1, pre = the preimage).  *)
(***************************************************************************)
EXTENDS Integers, Sequences, FiniteSets

\* Largest raw byte value used in the data blocks.
MaxByte == 1
\* Largest number of data blocks given to construct.
MaxLeaves == 5

VARIABLES input, pc, nodes, tree, proof, ret

vars == <<input, pc, nodes, tree, proof, ret>>

----------------------------------------------------------------------------
(* Bytes and the hash primitive                                            *)

Byte(b) == [val |-> b, pre |-> <<>>]

Sha256(data) == [val |-> -1, pre |-> data]

hash_data(data) == <<Sha256(data)>>

\* Mutant of hash_concat: the second digest is not chained in.
hash_concat_bug(h1, h2) == hash_data(h1)

hash_concat(h1, h2) == hash_data(h1 \o h2)

----------------------------------------------------------------------------
(* Tree nodes.  An Option<Box<MerkleTree>> is a sequence of length 0 or 1. *)

new_leaf(data) == [hash |-> hash_data(data), left |-> <<>>, right |-> <<>>]

\* Mutant of new_parent: the children's digests are hashed in swapped order.
new_parent_bug(left, right) ==
    [hash |-> hash_concat(right.hash, left.hash),
     left |-> <<left>>,
     right |-> <<right>>]

new_parent(left, right) ==
    [hash |-> hash_concat(left.hash, right.hash),
     left |-> <<left>>,
     right |-> <<right>>]

root(self) == self.hash

\* input.iter().map(|d| MerkleTree::new_leaf(d)).collect()
leaves(in) == [i \in 1..Len(in) |-> new_leaf(in[i])]

\* Mutant of chunks: chunks_exact(2), which drops an unpaired last node.
chunks_bug(ns) ==
    [i \in 1..(Len(ns) \div 2) |-> <<ns[2 * i - 1], ns[2 * i]>>]

\* nodes.chunks(2): consecutive pairs, the last chunk of an odd level has
\* one element.
chunks(ns) ==
    [i \in 1..((Len(ns) + 1) \div 2) |->
        IF 2 * i <= Len(ns) THEN <<ns[2 * i - 1], ns[2 * i]>>
                            ELSE <<ns[2 * i - 1]>>]

\* Mutant of chunk_parent: an unpaired node is carried up unchanged.
chunk_parent_bug(chunk) ==
    IF Len(chunk) = 2 THEN new_parent(chunk[1], chunk[2])
                      ELSE chunk[1]

\* The body of the for loop: one parent per chunk.
chunk_parent(chunk) ==
    IF Len(chunk) = 2 THEN new_parent(chunk[1], chunk[2])
                      ELSE new_parent(chunk[1], chunk[1])

\* One round of the while loop: new_nodes.
round(ns) == [i \in 1..Len(chunks(ns)) |-> chunk_parent(chunks(ns)[i])]

RECURSIVE construct_loop(_)
construct_loop(ns) == IF Len(ns) > 1 THEN construct_loop(round(ns)) ELSE ns

\* construct as a function: nodes.remove(0) panics on an empty vector.
construct(in) ==
    LET ns == construct_loop(leaves(in))
    IN  IF ns = <<>> THEN [panicked |-> TRUE, tree |-> <<>>]
                     ELSE [panicked |-> FALSE, tree |-> <<ns[1]>>]

\* Mutant of verify: the first leaf's digest is compared, not the root's.
verify_bug(in, root_hash) == root(leaves(in)[1]) = root_hash

verify(in, root_hash) == root(construct(in).tree[1]) = root_hash

----------------------------------------------------------------------------
(* Proofs: a sequence of (direction, sibling digest) entries.              *)

RECURSIVE find_proof(_, _, _)
find_proof(self, data, hashes) ==
    IF self.hash = hash_data(data)
    THEN [found |-> TRUE, hashes |-> hashes]
    ELSE LET l == IF self.left # <<>>
                  THEN find_proof(self.left[1], data, hashes)
                  ELSE [found |-> FALSE, hashes |-> hashes]
         IN  IF l.found
             THEN [found |-> TRUE,
                   hashes |-> Append(l.hashes,
                                [dir |-> "Right", hash |-> self.right[1].hash])]
             ELSE LET r == IF self.right # <<>>
                           THEN find_proof(self.right[1], data, l.hashes)
                           ELSE [found |-> FALSE, hashes |-> l.hashes]
                  IN  IF r.found
                      THEN [found |-> TRUE,
                            hashes |-> Append(r.hashes,
                                [dir |-> "Left", hash |-> self.left[1].hash])]
                      ELSE [found |-> FALSE, hashes |-> r.hashes]

\* Mutant of prove: the entries are returned root-to-leaf.
prove_bug(self, data) ==
    LET r == find_proof(self, data, <<>>)
        n == Len(r.hashes)
    IN  IF r.found
        THEN [some |-> TRUE, hashes |-> [i \in 1..n |-> r.hashes[n + 1 - i]]]
        ELSE [some |-> FALSE, hashes |-> <<>>]

prove(self, data) ==
    LET r == find_proof(self, data, <<>>)
    IN  IF r.found THEN [some |-> TRUE, hashes |-> r.hashes]
                   ELSE [some |-> FALSE, hashes |-> <<>>]

RECURSIVE fold_proof(_, _)
fold_proof(hash, hashes) ==
    IF hashes = <<>> THEN hash
    ELSE fold_proof(IF Head(hashes).dir = "Left"
                    THEN hash_concat(Head(hashes).hash, hash)
                    ELSE hash_concat(hash, Head(hashes).hash),
                    Tail(hashes))

verify_proof(data, hashes, root_hash) ==
    fold_proof(hash_data(data), hashes) = root_hash

----------------------------------------------------------------------------
(* The flat reducer of main.rs                                             *)

\* Mutant of hash2: a single application of the hash.
hash2_bug(data) == hash_data(data)

hash2(data) == hash_data(hash_data(data))

merkle_round(hash_list) ==
    [i \in 1..((Len(hash_list) + 1) \div 2) |->
        LET left == hash_list[2 * i - 1]
            right == IF 2 * i <= Len(hash_list) THEN hash_list[2 * i] ELSE left
        IN  hash2(left \o right)]

RECURSIVE merkle(_)
merkle(hash_list) ==
    IF Len(hash_list) > 1 THEN merkle(merkle_round(hash_list))
                          ELSE hash_list[1]

----------------------------------------------------------------------------
(* Inputs                                                                  *)

Range(s) == {s[i] : i \in DOMAIN s}

\* Data blocks of one raw byte, as tests::example_data builds them.
RawBlocks == {<<Byte(b)>> : b \in 0..MaxByte}

\* A data block that is the byte concatenation of two leaf digests.
DigestPairBlock == hash_data(<<Byte(0)>>) \o hash_data(<<Byte(1)>>)

Blocks == RawBlocks \cup {DigestPairBlock}

Inputs == UNION {[1..n -> Blocks] : n \in 0..MaxLeaves}

\* Digests a caller may put in place of a sibling digest or of the root.
OtherDigests == {hash_data(b) : b \in Blocks}

NoProof == [called |-> FALSE, data |-> <<>>, some |-> FALSE, hashes |-> <<>>]

NoRet ==
    [op |-> "none", data |-> <<>>, hashes |-> <<>>, root_hash |-> <<>>,
     ok |-> FALSE, out |-> <<>>]

\* The proofs that differ from hashes in exactly one sibling digest.
OneSiblingChanged(hashes) ==
    UNION {{[hashes EXCEPT ![i].hash = g] :
                g \in OtherDigests \ {hashes[i].hash}} : i \in DOMAIN hashes}

----------------------------------------------------------------------------
(* The state machine: one caller's session.  The caller holds a sequence   *)
(* of blocks, may build the tree (construct, round by round), and asks one *)
(* question: verify, basic_entry, or prove followed by verify_proof.       *)
(* pc: "idle" (no call made), "loop" (inside construct), "built" (the tree *)
(* is returned), "proved" (prove has returned), "done" (the answer is in   *)
(* ret), "panic" (the thread panicked).                                    *)

Init ==
    /\ input \in Inputs
    /\ pc = "idle"
    /\ nodes = <<>>
    /\ tree = <<>>
    /\ proof = NoProof
    /\ ret = NoRet

\* construct, line 54: the leaves.
ConstructCall ==
    /\ pc = "idle"
    /\ nodes' = leaves(input)
    /\ pc' = "loop"
    /\ UNCHANGED <<input, tree, proof, ret>>

\* construct, lines 56-66: one round of the while loop.
ConstructRound ==
    /\ pc = "loop"
    /\ Len(nodes) > 1
    /\ nodes' = round(nodes)
    /\ UNCHANGED <<input, pc, tree, proof, ret>>

\* construct, line 67: nodes.remove(0), which panics on an empty vector.
ConstructReturn ==
    /\ pc = "loop"
    /\ ~(Len(nodes) > 1)
    /\ IF nodes = <<>>
       THEN /\ pc' = "panic"
            /\ UNCHANGED <<nodes, tree>>
       ELSE /\ tree' = <<Head(nodes)>>
            /\ nodes' = Tail(nodes)
            /\ pc' = "built"
    /\ UNCHANGED <<input, proof, ret>>

\* verify(input, root_hash): builds its own tree with construct.
Verify(root_hash) ==
    /\ pc \in {"idle", "built"}
    /\ IF construct(input).panicked
       THEN /\ pc' = "panic"
            /\ UNCHANGED ret
       ELSE /\ ret' = [NoRet EXCEPT !.op = "verify",
                                    !.root_hash = root_hash,
                                    !.ok = verify(input, root_hash)]
            /\ pc' = "done"
    /\ UNCHANGED <<input, nodes, tree, proof>>

\* tree.prove(data)
Prove(data) ==
    /\ pc = "built"
    /\ LET p == prove(tree[1], data)
       IN  proof' = [called |-> TRUE, data |-> data,
                     some |-> p.some, hashes |-> p.hashes]
    /\ pc' = "proved"
    /\ UNCHANGED <<input, nodes, tree, ret>>

\* verify_proof(data, proof, root_hash)
VerifyProof(data, hashes, root_hash) ==
    /\ pc = "proved"
    /\ proof.some
    /\ ret' = [NoRet EXCEPT !.op = "verify_proof",
                            !.data = data,
                            !.hashes = hashes,
                            !.root_hash = root_hash,
                            !.ok = verify_proof(data, hashes, root_hash)]
    /\ pc' = "done"
    /\ UNCHANGED <<input, nodes, tree, proof>>

\* basic_entry of main.rs with tx_hashes = the digests of the blocks.
BasicEntry ==
    /\ pc \in {"idle", "built"}
    /\ LET tx_hashes == [i \in 1..Len(input) |-> hash_data(input[i])]
       IN  IF tx_hashes = <<>>
           THEN ret' = [NoRet EXCEPT !.op = "basic_entry"]
           ELSE ret' = [NoRet EXCEPT !.op = "basic_entry",
                                     !.ok = TRUE,
                                     !.out = merkle(tx_hashes)]
    /\ pc' = "done"
    /\ UNCHANGED <<input, nodes, tree, proof>>

\* The root digests a caller tries.
RootGuesses == (IF tree = <<>> THEN {} ELSE {root(tree[1])}) \cup OtherDigests

\* The roots a proof is checked against: the tree's, and the stale root of
\* the tree of the first block alone.
ProofRoots ==
    IF tree = <<>> THEN {} ELSE {root(tree[1]), hash_data(input[1])}

Next ==
    \/ ConstructCall
    \/ ConstructRound
    \/ ConstructReturn
    \/ \E h \in RootGuesses : Verify(h)
    \/ \E d \in Blocks : Prove(d)
    \/ \E d \in Blocks, r \in ProofRoots : VerifyProof(d, proof.hashes, r)
    \/ \E p \in OneSiblingChanged(proof.hashes), r \in ProofRoots :
          VerifyProof(proof.data, p, r)
    \/ BasicEntry

Spec == Init /\ [][Next]_vars

\* construct alone, run to its return: the loop and the return are steps of
\* one sequential function, so each is taken when it is enabled.
ConstructNext == ConstructCall \/ ConstructRound \/ ConstructReturn

FairSpec ==
    /\ Init
    /\ [][ConstructNext]_vars
    /\ WF_vars(ConstructRound)
    /\ WF_vars(ConstructReturn)

----------------------------------------------------------------------------
(* Properties                                                              *)

IsBuilt == tree # <<>>

\* The answer in ret is verify_proof's, for the root of the built tree.
CheckedAgainstRoot ==
    /\ ret.op = "verify_proof"
    /\ IsBuilt
    /\ ret.root_hash = root(tree[1])

\* q is p with exactly one sibling digest replaced by a different digest.
DiffersInOneSibling(p, q) ==
    /\ Len(p) = Len(q)
    /\ \A i \in DOMAIN p : p[i].dir = q[i].dir
    /\ Cardinality({i \in DOMAIN p : p[i].hash # q[i].hash}) = 1

\* C1 (proof soundness): for every block d of the input, tree.prove(d)
\* returns Some, and verify_proof(d, that proof, tree.root()) returns true.
C1_ProofSoundness ==
    /\ (proof.called /\ proof.data \in Range(input)) => proof.some
    /\ (/\ CheckedAgainstRoot
        /\ proof.data \in Range(input)
        /\ ret.data = proof.data
        /\ ret.hashes = proof.hashes) => ret.ok

\* C1 witness: the proof of the last block of a 5-block input with a repeated
\* block (odd levels, a node paired with a copy of itself) was accepted.
C1_Witness ==
    /\ CheckedAgainstRoot
    /\ Len(input) = 5
    /\ \E i \in 1..4 : input[i] = input[5]
    /\ proof.data = input[5]
    /\ ret.data = proof.data
    /\ ret.hashes = proof.hashes
    /\ Len(proof.hashes) = 3
    /\ ret.ok

\* C2 (proof absence), as claimed: for every d that is not one of the blocks,
\* tree.prove(d) returns None.
C2_ProofAbsence ==
    (proof.called /\ proof.data \notin Range(input)) => ~proof.some

\* C3 (non-emptiness of proofs), as claimed: in a tree built from two or more
\* blocks, every proof returned as Some by prove(d), for any d, has at least
\* one entry.
C3_ProofNonEmpty ==
    (proof.called /\ proof.some /\ Len(input) >= 2) => Len(proof.hashes) >= 1

\* C4 (empty-input error), as claimed: with zero blocks, construct (called
\* directly or through verify) never reaches a panic in the construction code.
C4_EmptyInputRejected == (input = <<>>) => pc # "panic"

\* The root of the tree of the input with its last block appended once more.
RootWithLastRepeated ==
    root(construct(Append(input, input[Len(input)])).tree[1])

\* C5 (odd-duplication), as claimed: for every odd length n = 1, 3, 5, ...
\* the root equals the root of the input followed by a copy of its last block.
C5_OddDuplication ==
    (pc = "built" /\ Len(input) % 2 = 1) =>
        root(tree[1]) = RootWithLastRepeated

\* C5 amended: for every odd length n >= 3 the root equals the root of the
\* input followed by a copy of its last block.
C5_OddDuplicationFrom3 ==
    (pc = "built" /\ Len(input) % 2 = 1 /\ Len(input) >= 3) =>
        root(tree[1]) = RootWithLastRepeated

\* C5 witness: a tree of 5 distinct-ended blocks is built and its root is that
\* of the 6-block input.
C5_Witness ==
    /\ pc = "built"
    /\ Len(input) = 5
    /\ input[4] # input[5]
    /\ root(tree[1]) = RootWithLastRepeated

\* C6 (tamper detection): with (d, p, r) the accepted triple of a block d of
\* the tree, its proof p and the root r, verify_proof returns false when d
\* alone is replaced by a block with a different digest, or when exactly one
\* sibling digest of p alone is replaced by a different digest.
C6_TamperDetection ==
    (/\ CheckedAgainstRoot
     /\ proof.data \in Range(input)
     /\ verify_proof(proof.data, proof.hashes, root(tree[1]))
     /\ \/ /\ hash_data(ret.data) # hash_data(proof.data)
           /\ ret.hashes = proof.hashes
        \/ /\ ret.data = proof.data
           /\ DiffersInOneSibling(proof.hashes, ret.hashes)) => ~ret.ok

\* C6 witness: the middle sibling digest of a 3-entry proof was replaced and
\* the proof was rejected.
C6_Witness ==
    /\ CheckedAgainstRoot
    /\ proof.data \in Range(input)
    /\ ret.data = proof.data
    /\ Len(proof.hashes) = 3
    /\ DiffersInOneSibling(proof.hashes, ret.hashes)
    /\ ret.hashes[2].hash # proof.hashes[2].hash
    /\ ~ret.ok

\* C7 (flat reducer vs tree), as claimed: for every non-empty input the flat
\* reducer's result over the block digests differs from the tree's root.
C7_FlatDiffers ==
    (ret.op = "basic_entry" /\ ret.ok /\ IsBuilt) => ret.out # root(tree[1])

\* C7 amended: for every input of two or more blocks the flat reducer's result
\* over the block digests differs from the tree's root.
C7_FlatDiffersFrom2 ==
    (ret.op = "basic_entry" /\ ret.ok /\ IsBuilt /\ Len(input) >= 2) =>
        ret.out # root(tree[1])

\* C7 witness: the flat reducer has run on the digests of 4 blocks whose tree
\* is built, and the two roots differ.
C7_Witness ==
    /\ ret.op = "basic_entry"
    /\ ret.ok
    /\ IsBuilt
    /\ Len(input) = 4
    /\ ret.out # root(tree[1])

\* C8 (determinism seen through verify): verify(blocks, h) returns true for
\* h = construct(blocks).root() and false for every other digest h.
C8_VerifyDeterminism ==
    (ret.op = "verify" /\ IsBuilt) => (ret.ok <=> ret.root_hash = root(tree[1]))

\* C8 witness: verify accepted the root of a built 5-block tree.
C8_Witness ==
    /\ ret.op = "verify"
    /\ IsBuilt
    /\ Len(input) = 5
    /\ ret.root_hash = root(tree[1])
    /\ ret.ok

RECURSIVE WellFormed(_)
WellFormed(n) ==
    \/ /\ n.left = <<>>
       /\ n.right = <<>>
       /\ \E b \in Range(input) : n.hash = hash_data(b)
    \/ /\ Len(n.left) = 1
       /\ Len(n.right) = 1
       /\ n.hash = hash_concat(n.left[1].hash, n.right[1].hash)
       /\ WellFormed(n.left[1])
       /\ WellFormed(n.right[1])

\* C9 (node invariant): after every round of construct's loop and in the
\* returned tree, every node is a leaf (no child, digest of one input block)
\* or has both children and the digest hash_concat(left digest, right digest).
C9_NodeInvariant == \A n \in Range(nodes) \cup Range(tree) : WellFormed(n)

\* C9 witness: two rounds into the construction from 5 blocks, where both
\* rounds made a parent for an unpaired last node.
C9_Witness ==
    /\ pc = "loop"
    /\ Len(input) = 5
    /\ Len(nodes) = 2
    /\ nodes[2].left = nodes[2].right

\* C10 (termination of construction): each round replaces a level of k > 1
\* nodes by ceil(k/2) nodes in the same left-to-right order, the loop exits
\* with exactly one node, which is returned, and for a non-empty input the
\* loop eventually stops.
C10_Termination ==
    /\ [][(pc = "loop" /\ pc' = "loop") =>
            /\ Len(nodes) > 1
            /\ Len(nodes') = (Len(nodes) + 1) \div 2
            /\ \A i \in DOMAIN nodes' :
                 /\ nodes'[i].left = <<nodes[2 * i - 1]>>
                 /\ nodes'[i].right =
                      <<nodes[IF 2 * i <= Len(nodes) THEN 2 * i
                                                     ELSE 2 * i - 1]>>]_vars
    /\ [][(pc = "loop" /\ pc' = "built") =>
            (Len(nodes) = 1 /\ tree' = <<nodes[1]>>)]_vars
    /\ ((pc = "loop" /\ input # <<>>) ~> (pc = "built"))

\* C10 witness: construct has returned the tree of 5 blocks, a level of 3
\* nodes having been replaced by one of 2.
C10_Witness ==
    /\ pc = "built"
    /\ Len(input) = 5
    /\ nodes = <<>>
    /\ Len(tree[1].left[1].left) = 1

====
